---------------------------- MODULE Spec2Model ----------------------------
(***************************************************************************)
(* git-secret-scanner: the heuristic scan (scanner.py), the commit loop    *)
(* (git_utils.py), the LLM escalation (llm_utils.py) and the CLI entry     *)
(* point (main.py).                                                        *)
(*                                                                         *)
(* Python strings are TLA+ strings; TLC treats a string as the sequence of *)
(* its characters (Len, SubSeq, \o), so the text operations below work on  *)
(* the characters as the Python ones do.  A Python dict is a record whose  *)
(* DOMAIN is its key set; None/absent optionals are the empty sequence.    *)
(* A finding object that two lists share (findings, llm_candidates) is     *)
(* addressed by its position in `findings`.                                *)
(***************************************************************************)
EXTENDS Integers, Sequences, FiniteSets, TLC

VARIABLES
    pc,              \* position in main() (or in the function under study)
    args,            \* argparse namespace: repo, n, out, min_confidence
    repo,            \* what --repo designates: its kind and its commits, newest first
    tmp,             \* the temporary clone: "none", "open" or "cleaned"
    hashes,          \* analyze_last_n_commits: hashes returned by git log -n
    ci,              \* analyze_last_n_commits: index of the next hash of the loop
    diff_text,       \* text handed to scan_diff_for_passwords
    message_text,    \* text handed to scan_text_for_passwords
    all_findings,    \* analyze_last_n_commits: accumulator
    findings,        \* main: the finding objects, in list order
    llm_candidates,  \* main: references (positions in findings) to the selected objects
    llm_payload,     \* main: the projected request items
    llm_requests,    \* every payload handed to call_openai_llm, in call order
    llm_results,     \* main: the verdicts call_openai_llm returned
    final_findings,  \* main: the list the report is built from
    report,          \* main: <<>> or <<the report dict>>
    out_file,        \* content of args.out: <<>> or <<the JSON document written>>
    exit_code        \* <<>> while running, <<code>> after exit, <<"traceback">> after an uncaught exception

vars == <<pc, args, repo, tmp, hashes, ci, diff_text, message_text, all_findings,
          findings, llm_candidates, llm_payload, llm_requests, llm_results,
          final_findings, report, out_file, exit_code>>

---------------------------------------------------------------------------
(* Bounds of the model.                                                    *)

MaxDiffLines == 3
MaxTextLines == 2
MaxCommits == 2
MaxFindings == 3
MaxResults == 2

---------------------------------------------------------------------------
(* Text primitives of Python's str, on characters.                         *)

Char(s, i) == SubSeq(s, i, i)

CharsOf(s) == {Char(s, i) : i \in 1..Len(s)}

UpperCase == "ABCDEFGHIJKLMNOPQRSTUVWXYZ"

LowerCase == "abcdefghijklmnopqrstuvwxyz"

Digits == "0123456789"

Whitespace == {" ", "\t", "\n", "\r", "\f"}

LineBreaks == {"\n", "\r", "\f"}

Quotes == {"\"", "'"}

UpperChars == CharsOf(UpperCase)

WordChars == UpperChars \cup CharsOf(LowerCase) \cup CharsOf(Digits) \cup {"_"}

TokenChars == UpperChars \cup CharsOf(LowerCase) \cup CharsOf(Digits)
                 \cup {"_", "-", "=", "/", "+"}

\* str.lower() on one character: the table A->a .. Z->z, any other character kept.
ToLower == [c \in UpperChars |->
               Char(LowerCase, CHOOSE k \in 1..Len(UpperCase) : Char(UpperCase, k) = c)]

lower_char(c) == IF c \in UpperChars THEN ToLower[c] ELSE c

RECURSIVE lower(_)
lower(s) == IF s = "" THEN "" ELSE lower_char(Char(s, 1)) \o lower(Tail(s))

startswith(s, prefix) == Len(s) >= Len(prefix) /\ SubSeq(s, 1, Len(prefix)) = prefix

RECURSIVE SkipSpace(_, _)
SkipSpace(s, i) ==
    IF i <= Len(s) /\ Char(s, i) \in Whitespace THEN SkipSpace(s, i + 1) ELSE i

RECURSIVE SkipNonSpace(_, _)
SkipNonSpace(s, i) ==
    IF i <= Len(s) /\ Char(s, i) \notin Whitespace THEN SkipNonSpace(s, i + 1) ELSE i

RECURSIVE SkipSpaceBack(_, _)
SkipSpaceBack(s, j) ==
    IF j >= 1 /\ Char(s, j) \in Whitespace THEN SkipSpaceBack(s, j - 1) ELSE j

strip(s) == SubSeq(s, SkipSpace(s, 1), SkipSpaceBack(s, Len(s)))

RECURSIVE split_from(_, _)
split_from(s, i) ==
    LET a == SkipSpace(s, i)
        b == SkipNonSpace(s, a)
    IN IF a > Len(s) THEN <<>> ELSE <<SubSeq(s, a, b - 1)>> \o split_from(s, b)

split(s) == split_from(s, 1)

RECURSIVE SkipToBreak(_, _)
SkipToBreak(s, i) ==
    IF i <= Len(s) /\ Char(s, i) \notin LineBreaks THEN SkipToBreak(s, i + 1) ELSE i

RECURSIVE splitlines_from(_, _)
splitlines_from(s, i) ==
    IF i > Len(s) THEN <<>>
    ELSE LET b == SkipToBreak(s, i)
             next == IF b < Len(s) /\ Char(s, b) = "\r" /\ Char(s, b + 1) = "\n"
                     THEN b + 2 ELSE b + 1
         IN <<SubSeq(s, i, b - 1)>> \o splitlines_from(s, next)

splitlines(s) == splitlines_from(s, 1)

RECURSIVE join(_, _)
join(sep, parts) ==
    IF parts = <<>> THEN ""
    ELSE IF Len(parts) = 1 THEN parts[1]
    ELSE parts[1] \o sep \o join(sep, Tail(parts))

---------------------------------------------------------------------------
(* scanner.py: the rules.                                                  *)

REGEX_PATTERNS == <<
    [keywords |-> {"password", "pwd", "pass", "user_password"},
     value |-> "not_quote",
     pattern_name |-> "password assignment",
     finding_type |-> "hardcoded_password"],
    [keywords |-> {"token", "api_token", "auth_token"},
     value |-> "token_chars",
     pattern_name |-> "token assignment",
     finding_type |-> "hardcoded_token"],
    [keywords |-> {"secret", "secret_key", "private_key"},
     value |-> "not_quote",
     pattern_name |-> "secret assignment",
     finding_type |-> "hardcoded_secret"] >>

\* The character class of the quoted value: [^"'] or [A-Za-z0-9_\-=/+].
InValueClass(class, c) ==
    IF class = "token_chars" THEN c \in TokenChars ELSE c \notin Quotes

RECURSIVE ValueEnd(_, _, _)
ValueEnd(class, s, p) ==
    IF p <= Len(s) /\ InValueClass(class, Char(s, p)) THEN ValueEnd(class, s, p + 1) ELSE p

\* (?i)\b(kw)\b\s*=\s*["']<class>{4,}["'] matched with the keyword starting at i;
\* folded is s lower-cased (the (?i) flag).  The class never holds a quote, so the
\* closing quote is the character right after the longest run of class characters.
match_at(rule, kw, s, folded, i) ==
    LET j == i + Len(kw)
        k == SkipSpace(s, j)
        m == SkipSpace(s, k + 1)
        e == ValueEnd(rule.value, s, m + 1)
    IN /\ j - 1 <= Len(s)
       /\ SubSeq(folded, i, j - 1) = kw
       /\ (i = 1 \/ Char(s, i - 1) \notin WordChars)
       /\ (j > Len(s) \/ Char(s, j) \notin WordChars)
       /\ k <= Len(s) /\ Char(s, k) = "="
       /\ m <= Len(s) /\ Char(s, m) \in Quotes
       /\ e - (m + 1) >= 4
       /\ e <= Len(s) /\ Char(s, e) \in Quotes

regex_search(rule, s) ==
    LET folded == lower(s)
    IN \E i \in 1..Len(s) : \E kw \in rule.keywords : match_at(rule, kw, s, folded, i)

---------------------------------------------------------------------------
(* scanner.py: entropy and confidence.  Entropy is kept in millionths of a *)
(* bit: H = log2(n) - (1/n) * SUM count * log2(count).                     *)

\* round(10^6 * log2(k)) for k = 1..64; a scanned line has at most 64 characters.
Log2Micro == <<
    0, 1000000, 1584963, 2000000, 2321928, 2584963, 2807355, 3000000,
    3169925, 3321928, 3459432, 3584963, 3700440, 3807355, 3906891, 4000000,
    4087463, 4169925, 4247928, 4321928, 4392317, 4459432, 4523562, 4584963,
    4643856, 4700440, 4754888, 4807355, 4857981, 4906891, 4954196, 5000000,
    5044394, 5087463, 5129283, 5169925, 5209453, 5247928, 5285402, 5321928,
    5357552, 5392317, 5426265, 5459432, 5491853, 5523562, 5554589, 5584963,
    5614710, 5643856, 5672425, 5700440, 5727920, 5754888, 5781360, 5807355,
    5832890, 5857981, 5882643, 5906891, 5930737, 5954196, 5977280, 6000000 >>

Count(s, c) == Cardinality({i \in 1..Len(s) : Char(s, i) = c})

RECURSIVE SumCountLog(_, _)
SumCountLog(s, chars) ==
    IF chars = {} THEN 0
    ELSE LET c == CHOOSE x \in chars : TRUE
         IN Count(s, c) * Log2Micro[Count(s, c)] + SumCountLog(s, chars \ {c})

shannon_entropy(s) ==
    IF s = "" THEN 0
    ELSE (Len(s) * Log2Micro[Len(s)] - SumCountLog(s, CharsOf(s))) \div Len(s)

entropy_to_confidence(entropy) ==
    IF entropy < 3000000 THEN "low"
    ELSE IF entropy < 4000000 THEN "medium"
    ELSE "high"

\* f"{entropy:.2f}"
format_2f(entropy) ==
    LET h == (entropy + 5000) \div 10000
    IN ToString(h \div 100) \o "." \o ToString((h % 100) \div 10) \o ToString(h % 10)

---------------------------------------------------------------------------
(* scanner.py: the two scans.                                              *)

\* Faulty variant of match_rules: the loop without its break.
RECURSIVE match_rules_without_break(_, _)
match_rules_without_break(code_line, r) ==
    IF r > Len(REGEX_PATTERNS) THEN <<>>
    ELSE (IF regex_search(REGEX_PATTERNS[r], code_line) THEN <<REGEX_PATTERNS[r]>> ELSE <<>>)
         \o match_rules_without_break(code_line, r + 1)

\* The inner `for regex, pattern_name, finding_type in REGEX_PATTERNS` loop from
\* rule r on: the rules that produce a finding for code_line.  The loop breaks
\* at the first rule that matches.
RECURSIVE match_rules(_, _)
match_rules(code_line, r) ==
    IF r > Len(REGEX_PATTERNS) THEN <<>>
    ELSE IF regex_search(REGEX_PATTERNS[r], code_line) THEN <<REGEX_PATTERNS[r]>>
    ELSE match_rules(code_line, r + 1)

text_finding(commit_hash, file_path, line_number, code_line, rule) ==
    LET entropy == shannon_entropy(code_line)
    IN [commit_hash |-> IF commit_hash = <<>> \/ commit_hash[1] = ""
                        THEN "unknown" ELSE commit_hash[1],
        file_path |-> file_path,
        line |-> line_number,
        snippet |-> code_line,
        type |-> rule.finding_type,
        confidence |-> entropy_to_confidence(entropy),
        rationale |-> "Commit message line matches regex '" \o rule.pattern_name
                      \o "' (entropy: " \o format_2f(entropy) \o ")"]

RECURSIVE scan_text_lines(_, _, _, _, _)
scan_text_lines(lines, line_number, acc, file_path, commit_hash) ==
    IF line_number > Len(lines) THEN acc
    ELSE LET code_line == lines[line_number]
             matched == match_rules(code_line, 1)
             new == [i \in 1..Len(matched) |->
                        text_finding(commit_hash, file_path, line_number, code_line, matched[i])]
         IN scan_text_lines(lines, line_number + 1, acc \o new, file_path, commit_hash)

scan_text_for_passwords(text, file_path, commit_hash) ==
    scan_text_lines(splitlines(text), 1, <<>>, file_path, commit_hash)

\* Faulty variant of update_current_file: the b/ prefix is kept.
update_current_file_keeping_prefix(line, current_file) ==
    IF startswith(line, "+++ ")
    THEN LET parts == split(line)
         IN IF Len(parts) >= 2 THEN <<parts[2]>> ELSE current_file
    ELSE current_file

\* Faulty variant of update_current_file: /dev/null unsets the current file.
update_current_file_unsetting_dev_null(line, current_file) ==
    IF startswith(line, "+++ ")
    THEN LET parts == split(line)
         IN IF Len(parts) >= 2
            THEN IF parts[2] = "/dev/null" THEN <<>>
                 ELSE <<IF startswith(parts[2], "b/")
                        THEN SubSeq(parts[2], 3, Len(parts[2]))
                        ELSE parts[2]>>
            ELSE current_file
    ELSE current_file

\* The "+++ " branch of the diff loop: the value of current_file after `line`.
update_current_file(line, current_file) ==
    IF startswith(line, "+++ ")
    THEN LET parts == split(line)
         IN IF Len(parts) >= 2
            THEN <<IF startswith(parts[2], "b/")
                   THEN SubSeq(parts[2], 3, Len(parts[2]))
                   ELSE parts[2]>>
            ELSE current_file
    ELSE current_file

is_added_line(stripped) == startswith(stripped, "+") /\ ~startswith(stripped, "+++")

diff_finding(diff_source, current_file, line_number, code_line, rule) ==
    LET entropy == shannon_entropy(code_line)
    IN [commit_hash |-> diff_source,
        file_path |-> IF current_file = <<>> \/ current_file[1] = ""
                      THEN "unknown" ELSE current_file[1],
        line |-> line_number,
        snippet |-> code_line,
        type |-> rule.finding_type,
        confidence |-> entropy_to_confidence(entropy),
        rationale |-> "Added line in diff matches regex '" \o rule.pattern_name
                      \o "' entropy= " \o format_2f(entropy) \o ")"]

RECURSIVE scan_diff_lines(_, _, _, _, _)
scan_diff_lines(lines, k, current_file, acc, diff_source) ==
    IF k > Len(lines) THEN acc
    ELSE LET line == lines[k]
             line_number == k
             file == update_current_file(line, current_file)
             stripped == strip(line)
             code_line == Tail(stripped)
             matched == IF is_added_line(stripped) THEN match_rules(code_line, 1) ELSE <<>>
             new == [i \in 1..Len(matched) |->
                        diff_finding(diff_source, file, line_number, code_line, matched[i])]
         IN scan_diff_lines(lines, k + 1, file, acc \o new, diff_source)

scan_diff_for_passwords(dtext, diff_source) ==
    scan_diff_lines(splitlines(dtext), 1, <<>>, <<>>, diff_source)

---------------------------------------------------------------------------
(* llm_utils.py: selection, payload, merge.  A list of finding objects is  *)
(* passed as the sequence fs of the objects; a list that shares objects    *)
(* with it is a sequence of positions in fs.                               *)

order == [low |-> 0, medium |-> 1, high |-> 2]

\* order.get(key, default)
order_get(key, default) == IF key \in DOMAIN order THEN order[key] ELSE default

\* Faulty variant of select_from: level < min_level.
RECURSIVE select_from_strictly_below(_, _, _)
select_from_strictly_below(fs, i, min_level) ==
    IF i > Len(fs) THEN <<>>
    ELSE LET finding == fs[i]
             raw_conf == IF "confidence" \in DOMAIN finding THEN finding.confidence ELSE "medium"
             conf == lower(raw_conf)
             picked == IF conf \notin DOMAIN order THEN <<>>
                       ELSE IF order[conf] < min_level THEN <<i>>
                       ELSE <<>>
         IN picked \o select_from_strictly_below(fs, i + 1, min_level)

\* The loop of select_llm_candidates from position i on.  str() leaves a string
\* as it is; a finding without the key counts as "medium".
RECURSIVE select_from(_, _, _)
select_from(fs, i, min_level) ==
    IF i > Len(fs) THEN <<>>
    ELSE LET finding == fs[i]
             raw_conf == IF "confidence" \in DOMAIN finding THEN finding.confidence ELSE "medium"
             conf == lower(raw_conf)
             picked == IF conf \notin DOMAIN order THEN <<>>
                       ELSE IF order[conf] <= min_level THEN <<i>>
                       ELSE <<>>
         IN picked \o select_from(fs, i + 1, min_level)

select_llm_candidates(fs, min_confidence) ==
    select_from(fs, 1, order_get(min_confidence, order["medium"]))

\* Faulty variant of ids: numbered from f0.
ids_from_zero(index) == "f" \o ToString(index - 1)

\* f"f{index}"
ids(index) == "f" \o ToString(index)

\* dict.get(key): None (the empty sequence) when the key is absent.
Get(d, key) == IF key \in DOMAIN d THEN d[key] ELSE <<>>

\* d[key] = value
SetKey(d, key, value) == (key :> value) @@ d

llm_finding(finding, index) ==
    [id |-> ids(index),
     commit_hash |-> Get(finding, "commit_hash"),
     file_path |-> Get(finding, "file_path"),
     line |-> Get(finding, "line"),
     snippet |-> Get(finding, "snippet"),
     confidence |-> Get(finding, "confidence")]

\* The list build_llm_payload returns.
build_llm_payload(fs, candidates) ==
    [index \in 1..Len(candidates) |-> llm_finding(fs[candidates[index]], index)]

\* The objects after build_llm_payload: finding["id"] = ids, candidate by candidate.
RECURSIVE assign_ids_from(_, _, _)
assign_ids_from(fs, candidates, index) ==
    IF index > Len(candidates) THEN fs
    ELSE assign_ids_from([fs EXCEPT ![candidates[index]] = SetKey(@, "id", ids(index))],
                         candidates, index + 1)

\* Faulty variant of assign_ids: every finding of the list gets an id.
assign_ids_to_all(fs, candidates) == assign_ids_from(fs, [i \in 1..Len(fs) |-> i], 1)

assign_ids(fs, candidates) == assign_ids_from(fs, candidates, 1)

\* Faulty variant of results_by_id: the index is rebuilt at every result.
RECURSIVE results_by_id_rebuilt(_, _)
results_by_id_rebuilt(results, k) ==
    IF k = 0 THEN <<>>
    ELSE IF "id" \in DOMAIN results[k] THEN (results[k].id :> results[k])
    ELSE results_by_id_rebuilt(results, k - 1)

\* results_by_id after the first k results: a later result replaces an earlier
\* one with the same id; a result without id is skipped.
RECURSIVE results_by_id(_, _)
results_by_id(results, k) ==
    IF k = 0 THEN <<>>
    ELSE LET prev == results_by_id(results, k - 1)
             result == results[k]
         IN IF "id" \in DOMAIN result THEN (result.id :> result) @@ prev ELSE prev

\* Faulty variant of merge_finding: the verdict's confidence replaces the finding's.
merge_finding_rescoring(finding, by_id) ==
    IF "id" \notin DOMAIN finding THEN finding
    ELSE IF finding.id \notin DOMAIN by_id THEN finding
    ELSE LET llm_result == by_id[finding.id]
         IN SetKey(SetKey(SetKey(SetKey(finding,
                "llm_is_secret", Get(llm_result, "is_secret")),
                "llm_type", Get(llm_result, "llm_type")),
                "confidence", Get(llm_result, "llm_confidence")),
                "llm_comment", Get(llm_result, "llm_comment"))

merge_finding(finding, by_id) ==
    IF "id" \notin DOMAIN finding THEN finding
    ELSE IF finding.id \notin DOMAIN by_id THEN finding
    ELSE LET llm_result == by_id[finding.id]
         IN SetKey(SetKey(SetKey(SetKey(finding,
                "llm_is_secret", Get(llm_result, "is_secret")),
                "llm_type", Get(llm_result, "llm_type")),
                "llm_confidence", Get(llm_result, "llm_confidence")),
                "llm_comment", Get(llm_result, "llm_comment"))

\* The objects (and the returned list) after merge_llm_results.
merge_llm_results(fs, results) ==
    LET by_id == results_by_id(results, Len(results))
    IN [i \in 1..Len(fs) |-> merge_finding(fs[i], by_id)]

---------------------------------------------------------------------------
(* git_utils.py: the repository as git reports it.                         *)

\* Faulty variant of extend: the accumulator is replaced.
extend_replacing(all, new) == new

\* all_findings.extend(new)
extend(all, new) == all \o new

\* git log -n <n> --pretty=format:%H: the newest n hashes.
get_last_n_commit_hashes(commits, n) ==
    IF n <= 0 THEN <<>>
    ELSE [i \in 1..(IF n < Len(commits) THEN n ELSE Len(commits)) |-> commits[i].hash]

commit_of(commits, commit_hash) ==
    commits[CHOOSE i \in 1..Len(commits) : commits[i].hash = commit_hash]

\* git show --format= --patch <hash>
get_commit_diff(commits, commit_hash) == commit_of(commits, commit_hash).diff

\* git show -s --format=%B <hash>, stripped
get_commit_message(commits, commit_hash) == strip(commit_of(commits, commit_hash).message)

\* finally: tmp.cleanup() if a clone was made
cleanup(t) == IF t = "open" THEN "cleaned" ELSE t

---------------------------------------------------------------------------
(* Inputs.                                                                 *)

SeqsUpTo(S, n) == UNION {[1..k -> S] : k \in 0..n}

\* What git show prints for a commit: the patch, and the message (%B).
CommitPool == {
    [diff |-> "--- a/app.py\n+++ b/app.py\n@@ -1 +1 @@\n-x = 0\n+x = 1\n",
     message |-> "initial commit\n"],
    [diff |-> "--- a/app.py\n+++ b/app.py\n+pwd='aaaa'\n+auth_token='Zk3+/x=_-9QwErTy'\n",
     message |-> "add settings\n"],
    [diff |-> "--- /dev/null\n+++ b/k.py\n+secret = 'aB3$xY9!kL0#'\n",
     message |-> "add key\n"],
    [diff |-> "--- a/app.py\n+++ b/app.py\n-pwd='aaaa'\n",
     message |-> "rotate\n\napi_token = 'ZZZZ1111YYYY2222'\n"] }

\* A history of the pool's commits, newest first, the i-th with hash c<i>.
Histories ==
    {[i \in 1..Len(h) |-> [hash |-> "c" \o ToString(i), diff |-> h[i].diff,
                           message |-> h[i].message]] : h \in SeqsUpTo(CommitPool, MaxCommits)}

\* --repo: a git working copy, a directory without .git, a URL that clones, a
\* URL whose clone fails, or neither a directory nor a URL.
RepoKinds == {"git_dir", "plain_dir", "url", "bad_url", "invalid"}

\* A verdict as LLMDecision.model_dump() gives it.
Verdict(id, is_secret) ==
    [id |-> id,
     is_secret |-> is_secret,
     llm_type |-> IF is_secret THEN "hardcoded_password" ELSE "not_a_secret",
     llm_confidence |-> IF is_secret THEN "high" ELSE "low",
     llm_comment |-> IF is_secret THEN "looks real" ELSE "placeholder"]

\* The classifier may answer any ids: the request's, repeated ones, foreign ones.
VerdictPool == {Verdict("f1", TRUE), Verdict("f1", FALSE), Verdict("f2", TRUE),
                Verdict("f9", FALSE)}

---------------------------------------------------------------------------
(* main.py: main().                                                        *)

StartAt(p, a, r, dtext, mtext, fs, candidates, results) ==
    /\ pc = p
    /\ args = a
    /\ repo = r
    /\ tmp = "none"
    /\ hashes = <<>>
    /\ ci = 1
    /\ diff_text = dtext
    /\ message_text = mtext
    /\ all_findings = <<>>
    /\ findings = fs
    /\ llm_candidates = candidates
    /\ llm_payload = <<>>
    /\ llm_requests = <<>>
    /\ llm_results = results
    /\ final_findings = <<>>
    /\ report = <<>>
    /\ out_file = <<>>
    /\ exit_code = <<>>

Arguments(n, min_confidence) ==
    [repo |-> "repo", n |-> n, out |-> "report.json", min_confidence |-> min_confidence]

Init ==
    \E n \in 0..MaxCommits, min_confidence \in DOMAIN order, kind \in RepoKinds,
       commits \in Histories :
        /\ kind \notin {"git_dir", "url"} => commits = <<>>
        /\ StartAt("parse", Arguments(n, min_confidence),
                   [kind |-> kind, commits |-> commits], "", "", <<>>, <<>>, <<>>)

\* sys.exit(code), after the finally clause
Exit(code) ==
    /\ pc' = "exited"
    /\ exit_code' = <<code>>
    /\ tmp' = cleanup(tmp)

\* args = parser.parse_args(); if args.n <= 0: parser.error(...)
ParseArgs ==
    /\ pc = "parse"
    /\ IF args.n <= 0
       THEN pc' = "exited" /\ exit_code' = <<2>>
       ELSE pc' = "prepare" /\ UNCHANGED exit_code
    /\ UNCHANGED <<args, repo, tmp, hashes, ci, diff_text, message_text, all_findings,
                   findings, llm_candidates, llm_payload, llm_requests, llm_results,
                   final_findings, report, out_file>>

\* repo_path, tmp = prepare_repo(args.repo)
PrepareRepo ==
    /\ pc = "prepare"
    /\ \/ /\ repo.kind \in {"git_dir", "plain_dir"}
          /\ pc' = "analyze"
          /\ UNCHANGED <<tmp, exit_code>>
       \/ /\ repo.kind = "url"
          /\ tmp' = "open"
          /\ pc' = "analyze"
          /\ UNCHANGED exit_code
       \/ /\ repo.kind = "bad_url"     \* RuntimeError: no except clause takes it
          /\ pc' = "crashed"
          /\ exit_code' = <<"traceback">>
          /\ UNCHANGED tmp
       \/ /\ repo.kind = "invalid"     \* ValueError
          /\ Exit(1)
    /\ UNCHANGED <<args, repo, hashes, ci, diff_text, message_text, all_findings,
                   findings, llm_candidates, llm_payload, llm_requests, llm_results,
                   final_findings, report, out_file>>

\* analyze_last_n_commits up to its loop: ensure_valid_repo, get_last_n_commit_hashes
AnalyzeBegin ==
    /\ pc = "analyze"
    /\ \/ /\ repo.kind = "plain_dir"   \* ValueError: no .git folder
          /\ Exit(1)
          /\ UNCHANGED <<hashes, ci, all_findings>>
       \/ /\ repo.kind # "plain_dir"
          /\ repo.commits = <<>>       \* git log fails in a repository without commits
          /\ Exit(1)
          /\ UNCHANGED <<hashes, ci, all_findings>>
       \/ /\ repo.kind # "plain_dir"
          /\ repo.commits # <<>>
          /\ hashes' = get_last_n_commit_hashes(repo.commits, args.n)
          /\ all_findings' = <<>>
          /\ ci' = 1
          /\ pc' = "scan"
          /\ UNCHANGED <<tmp, exit_code>>
    /\ UNCHANGED <<args, repo, diff_text, message_text, findings, llm_candidates,
                   llm_payload, llm_requests, llm_results, final_findings, report, out_file>>

\* One pass of `for commit_hash in hashes`
ScanCommit ==
    /\ pc = "scan"
    /\ ci <= Len(hashes)
    /\ LET commit_hash == hashes[ci]
           diff == get_commit_diff(repo.commits, commit_hash)
           diff_findings == scan_diff_for_passwords(diff, commit_hash)
           message == get_commit_message(repo.commits, commit_hash)
           message_findings == scan_text_for_passwords(message, "COMMIT_MESSAGE", <<commit_hash>>)
       IN /\ diff_text' = diff
          /\ message_text' = message
          /\ all_findings' = extend(extend(all_findings, diff_findings), message_findings)
    /\ ci' = ci + 1
    /\ UNCHANGED <<pc, args, repo, tmp, hashes, findings, llm_candidates, llm_payload,
                   llm_requests, llm_results, final_findings, report, out_file, exit_code>>

\* git show fails on a commit (CalledProcessError)
GitCommandFails ==
    /\ pc = "scan"
    /\ ci <= Len(hashes)
    /\ Exit(1)
    /\ UNCHANGED <<args, repo, hashes, ci, diff_text, message_text, all_findings,
                   findings, llm_candidates, llm_payload, llm_requests, llm_results,
                   final_findings, report, out_file>>

\* return all_findings; finally: tmp.cleanup()
AnalyzeReturn ==
    /\ pc = "scan"
    /\ ci > Len(hashes)
    /\ findings' = all_findings
    /\ tmp' = cleanup(tmp)
    /\ pc' = "select"
    /\ UNCHANGED <<args, repo, hashes, ci, diff_text, message_text, all_findings,
                   llm_candidates, llm_payload, llm_requests, llm_results,
                   final_findings, report, out_file, exit_code>>

\* llm_candidates = select_llm_candidates(findings, min_confidence=args.min_confidence)
SelectCandidates ==
    /\ pc = "select"
    /\ llm_candidates' = select_llm_candidates(findings, args.min_confidence)
    /\ pc' = "build"
    /\ UNCHANGED <<args, repo, tmp, hashes, ci, diff_text, message_text, all_findings,
                   findings, llm_payload, llm_requests, llm_results, final_findings,
                   report, out_file, exit_code>>

\* llm_payload = build_llm_payload(llm_candidates)
BuildPayload ==
    /\ pc = "build"
    /\ llm_payload' = build_llm_payload(findings, llm_candidates)
    /\ findings' = assign_ids(findings, llm_candidates)
    /\ pc' = "branch"
    /\ UNCHANGED <<args, repo, tmp, hashes, ci, diff_text, message_text, all_findings,
                   llm_candidates, llm_requests, llm_results, final_findings,
                   report, out_file, exit_code>>

\* if llm_payload: llm_results = call_openai_llm(llm_payload, ...)
CallLLM ==
    /\ pc = "branch"
    /\ llm_payload # <<>>
    /\ llm_requests' = Append(llm_requests, llm_payload)
    /\ \E results \in SeqsUpTo(VerdictPool, MaxResults) : llm_results' = results
    /\ pc' = "merge"
    /\ UNCHANGED <<args, repo, tmp, hashes, ci, diff_text, message_text, all_findings,
                   findings, llm_candidates, llm_payload, final_findings, report,
                   out_file, exit_code>>

\* call_openai_llm raises (transport, or a response that fails the schema)
LLMFails ==
    /\ pc = "branch"
    /\ llm_payload # <<>>
    /\ llm_requests' = Append(llm_requests, llm_payload)
    /\ pc' = "crashed"
    /\ exit_code' = <<"traceback">>
    /\ UNCHANGED <<args, repo, tmp, hashes, ci, diff_text, message_text, all_findings,
                   findings, llm_candidates, llm_payload, llm_results, final_findings,
                   report, out_file>>

\* final_findings = merge_llm_results(findings, llm_results)
MergeResults ==
    /\ pc = "merge"
    /\ findings' = merge_llm_results(findings, llm_results)
    /\ final_findings' = findings'
    /\ pc' = "report"
    /\ UNCHANGED <<args, repo, tmp, hashes, ci, diff_text, message_text, all_findings,
                   llm_candidates, llm_payload, llm_requests, llm_results, report,
                   out_file, exit_code>>

\* else: final_findings = findings
SkipLLM ==
    /\ pc = "branch"
    /\ llm_payload = <<>>
    /\ final_findings' = findings
    /\ pc' = "report"
    /\ UNCHANGED <<args, repo, tmp, hashes, ci, diff_text, message_text, all_findings,
                   findings, llm_candidates, llm_payload, llm_requests, llm_results,
                   report, out_file, exit_code>>

\* json.dump(report, out_f, indent=2)
write_report(finding_list, out, document) == IF finding_list = <<>> THEN <<document>> ELSE out

\* report = {...}; if not findings: report = {...}; write it; return
WriteReport ==
    /\ pc = "report"
    /\ report' = <<[repository |-> args.repo, scanned_commits |-> args.n,
                    findings |-> IF findings = <<>> THEN <<>> ELSE final_findings]>>
    /\ out_file' = write_report(findings, out_file, report'[1])
    /\ pc' = "done"
    /\ exit_code' = <<0>>
    /\ UNCHANGED <<args, repo, tmp, hashes, ci, diff_text, message_text, all_findings,
                   findings, llm_candidates, llm_payload, llm_requests, llm_results,
                   final_findings>>

Next ==
    \/ ParseArgs
    \/ PrepareRepo
    \/ AnalyzeBegin
    \/ ScanCommit
    \/ GitCommandFails
    \/ AnalyzeReturn
    \/ SelectCandidates
    \/ BuildPayload
    \/ CallLLM
    \/ LLMFails
    \/ MergeResults
    \/ SkipLLM
    \/ WriteReport

Spec == Init /\ [][Next]_vars

---------------------------------------------------------------------------
(* The two scans on their own: any short diff text, any short plain text.  *)

DiffLinePool == {
    "--- a/app.py",
    "+++ b/app.py",
    "+++ /dev/null",
    "+++ ",
    "+++ b/",
    "@@ -1 +1 @@",
    "+x = 1",
    "+pwd='aaaa'",
    "+pwd='aaaa'; token='bbbb'",
    "  +token='abcd'; secret='wxyz'",
    "+++pwd='aaaa'",
    "-password = 'Sup3rSecret!'",
    " secret = 'hunter2'" }

TextLinePool == {
    "fix typo",
    "pwd='aaaa'",
    "PASS = \"abcd\"",
    "pass = 'abc'",
    "mypassword = 'abcde'",
    "+password = \"Sup3rSecret!\"",
    "api_token = 'ZZZZ1111YYYY2222'",
    "token = 'ab cd'",
    "pwd='aaaa'; token='bbbb'",
    "token='abcd'; secret='wxyz'",
    "token = 'ab cd'; secret_key = 'ab cd'",
    "pwd='aaaa'; token='bbbb'; secret='cccc'" }

\* Every line ended by a newline, as git prints a patch.
DiffTexts == {join("", [i \in 1..Len(ls) |-> ls[i] \o "\n"]) : ls \in SeqsUpTo(DiffLinePool, MaxDiffLines)}

\* Lines separated by newlines, as a stripped commit message.
PlainTexts == {join("\n", ls) : ls \in SeqsUpTo(TextLinePool, MaxTextLines)}

NoRepo == [kind |-> "git_dir", commits |-> <<>>]

InitScan ==
    \/ \E dtext \in DiffTexts :
          StartAt("scan_diff", Arguments(1, "medium"), NoRepo, dtext, "", <<>>, <<>>, <<>>)
    \/ \E text \in PlainTexts :
          StartAt("scan_text", Arguments(1, "medium"), NoRepo, "", text, <<>>, <<>>, <<>>)

\* findings = scan_diff_for_passwords(diff_text, diff_source=commit_hash)
ScanDiff ==
    /\ pc = "scan_diff"
    /\ findings' = scan_diff_for_passwords(diff_text, "c1")
    /\ pc' = "scanned_diff"
    /\ UNCHANGED <<args, repo, tmp, hashes, ci, diff_text, message_text, all_findings,
                   llm_candidates, llm_payload, llm_requests, llm_results,
                   final_findings, report, out_file, exit_code>>

\* findings = scan_text_for_passwords(message_text, "COMMIT_MESSAGE", commit_hash=...)
ScanText ==
    /\ pc = "scan_text"
    /\ \E commit_hash \in {<<>>, <<"c1">>} :
          findings' = scan_text_for_passwords(message_text, "COMMIT_MESSAGE", commit_hash)
    /\ pc' = "scanned_text"
    /\ UNCHANGED <<args, repo, tmp, hashes, ci, diff_text, message_text, all_findings,
                   llm_candidates, llm_payload, llm_requests, llm_results,
                   final_findings, report, out_file, exit_code>>

NextScan == ScanDiff \/ ScanText

SpecScan == InitScan /\ [][NextScan]_vars

---------------------------------------------------------------------------
(* select_llm_candidates, build_llm_payload and merge_llm_results on their *)
(* own: any short finding list, candidate list and verdict list.           *)

\* Values of finding["confidence"]; "(absent)" stands for a dict without the key.
ConfidenceInputs == {"low", "medium", "high", "LOW", "Medium", "critical", "(absent)"}

\* Values of min_confidence; "urgent" is none of the three levels.
ThresholdInputs == {"low", "medium", "high", "urgent"}

BaseFinding(line) ==
    [commit_hash |-> "c1", file_path |-> "app.py", line |-> line, snippet |-> "pwd='aaaa'",
     type |-> "hardcoded_password",
     rationale |-> "Added line in diff matches regex 'password assignment' entropy= 2.32)"]

FindingWith(confidence, line) ==
    IF confidence = "(absent)" THEN BaseFinding(line)
    ELSE SetKey(BaseFinding(line), "confidence", confidence)

InitSelect ==
    \E cs \in SeqsUpTo(ConfidenceInputs, MaxFindings), min_confidence \in ThresholdInputs :
        StartAt("select", Arguments(1, min_confidence), NoRepo, "", "",
                [i \in 1..Len(cs) |-> FindingWith(cs[i], i)], <<>>, <<>>)

NextSelect == SelectCandidates

SpecSelect == InitSelect /\ [][NextSelect]_vars

\* Findings as the scans produce them, and one that already carries an id.
PayloadPool ==
    LET scanned == scan_diff_for_passwords(
                       "+++ b/app.py\n+pwd='aaaa'\n+auth_token='Zk3+/x=_-9QwErTy'\n", "c1")
                   \o scan_text_for_passwords("api_token = 'ZZZZ1111YYYY2222'",
                                              "COMMIT_MESSAGE", <<"c2">>)
    IN {scanned[i] : i \in 1..Len(scanned)} \cup {SetKey(scanned[1], "id", "f7")}

\* The lists of distinct positions of 1..n in list order.
Sublists(n) ==
    {c \in SeqsUpTo(1..n, n) : \A i \in 1..Len(c), j \in 1..Len(c) : i < j => c[i] < c[j]}

InitPayload ==
    \E fs \in SeqsUpTo(PayloadPool, MaxFindings) :
        \E candidates \in Sublists(Len(fs)) :
            StartAt("build", Arguments(1, "medium"), NoRepo, "", "", fs, candidates, <<>>)

NextPayload == BuildPayload

SpecPayload == InitPayload /\ [][NextPayload]_vars

\* What a finding may carry when it reaches the merge: no id, or an id.
ReviewIdInputs == {"(absent)", "f1", "f2"}

FindingWithId(id, line) ==
    IF id = "(absent)" THEN FindingWith("low", line)
    ELSE SetKey(FindingWith("low", line), "id", id)

\* The pool's verdicts and one without an id.
MergeVerdictPool ==
    VerdictPool \cup {[is_secret |-> TRUE, llm_type |-> "hardcoded_token",
                       llm_confidence |-> "medium", llm_comment |-> "no id"]}

InitMerge ==
    \E review_ids \in SeqsUpTo(ReviewIdInputs, MaxFindings),
       results \in SeqsUpTo(MergeVerdictPool, MaxResults) :
        StartAt("merge", Arguments(1, "medium"), NoRepo, "", "",
                [i \in 1..Len(review_ids) |-> FindingWithId(review_ids[i], i)], <<>>, results)

NextMerge == MergeResults

SpecMerge == InitMerge /\ [][NextMerge]_vars

---------------------------------------------------------------------------
(* Properties.                                                             *)

Range(q) == {q[i] : i \in 1..Len(q)}

IsAscending(q) == \A i \in 1..Len(q), j \in 1..Len(q) : i < j => q[i] < q[j]

Maximum(S) == CHOOSE x \in S : \A y \in S : y <= x

Minimum(S) == CHOOSE x \in S : \A y \in S : x <= y

LLMKeys == {"llm_is_secret", "llm_type", "llm_confidence", "llm_comment"}

PayloadKeys == {"id", "commit_hash", "file_path", "line", "snippet", "confidence"}

\* The request item that projects finding f.
Covers(request, f) ==
    \E k \in 1..Len(request) :
        /\ request[k].commit_hash = f.commit_hash
        /\ request[k].file_path = f.file_path
        /\ request[k].line = f.line
        /\ request[k].snippet = f.snippet

\* ---- C1 ---------------------------------------------------------------

\* The positions C1 as stated selects: the confidence is literally one of
\* low, medium, high and its ordinal is at most the threshold's.
LiterallySelected(fs, min_confidence) ==
    {i \in 1..Len(fs) : /\ "confidence" \in DOMAIN fs[i]
                        /\ fs[i].confidence \in DOMAIN order
                        /\ order[fs[i].confidence] <= order[min_confidence]}

\* The positions selected when the confidence is read case-insensitively and a
\* finding without confidence counts as medium.
FoldedSelected(fs, min_confidence) ==
    {i \in 1..Len(fs) :
        \E level \in DOMAIN order :
            /\ level = lower(IF "confidence" \in DOMAIN fs[i] THEN fs[i].confidence ELSE "medium")
            /\ order[level] <= order[min_confidence]}

HasVerdictFor(f) ==
    /\ "id" \in DOMAIN f
    /\ \E r \in 1..Len(llm_results) :
          "id" \in DOMAIN llm_results[r] /\ llm_results[r].id = f.id

\* C2: after a complete run, a finding of the final list carries a review id iff a
\* classifier request included it, and carries the verdict fields iff the response
\* held a verdict whose id is the finding's review id.
C2_ReviewIdIffRequestedVerdictIffAnswered ==
    pc = "done" =>
        \A i \in 1..Len(final_findings) :
            LET f == final_findings[i]
            IN /\ ("id" \in DOMAIN f) <=> (\E q \in 1..Len(llm_requests) : Covers(llm_requests[q], f))
               /\ (LLMKeys \cap DOMAIN f # {}) => HasVerdictFor(f)
               /\ HasVerdictFor(f) => LLMKeys \subseteq DOMAIN f

\* A finished run with a reviewed and answered finding, a reviewed and unanswered
\* one, and one that was never sent.
C2_Witness ==
    /\ pc = "done"
    /\ \E i \in 1..Len(final_findings) :
          "id" \in DOMAIN final_findings[i] /\ LLMKeys \subseteq DOMAIN final_findings[i]
    /\ \E i \in 1..Len(final_findings) :
          "id" \in DOMAIN final_findings[i] /\ LLMKeys \cap DOMAIN final_findings[i] = {}
    /\ \E i \in 1..Len(final_findings) : "id" \notin DOMAIN final_findings[i]

\* ---- C3 ---------------------------------------------------------------

\* C3: build_llm_payload returns one item per candidate; the i-th item has id f<i>
\* and the candidate's commit hash, file path, line, snippet and confidence, and
\* nothing else (no type, no rationale); the ids are pairwise distinct; the i-th
\* candidate object carries the same id f<i>.
C3_PayloadProjectsCandidatesInOrder ==
    pc = "branch" =>
        /\ Len(llm_payload) = Len(llm_candidates)
        /\ \A i \in 1..Len(llm_payload) :
              LET item == llm_payload[i]
                  candidate == findings[llm_candidates[i]]
              IN /\ DOMAIN item = PayloadKeys
                 /\ item.id = "f" \o ToString(i)
                 /\ item.commit_hash = candidate.commit_hash
                 /\ item.file_path = candidate.file_path
                 /\ item.line = candidate.line
                 /\ item.snippet = candidate.snippet
                 /\ item.confidence = candidate.confidence
                 /\ "id" \in DOMAIN candidate
                 /\ candidate.id = "f" \o ToString(i)
        /\ \A i \in 1..Len(llm_payload), j \in 1..Len(llm_payload) :
              i # j => llm_payload[i].id # llm_payload[j].id

\* Two of three findings selected, the second candidate being the third finding.
C3_Witness ==
    /\ pc = "branch"
    /\ Len(findings) = 3
    /\ llm_candidates = <<1, 3>>
    /\ Len(llm_payload) = 2
    /\ llm_payload[2].id = "f2"
    /\ findings[3].id = "f2"
    /\ "id" \notin DOMAIN findings[2]

\* ---- C4 ---------------------------------------------------------------

Permuted(q, p) == [i \in 1..Len(q) |-> q[p[i]]]

\* Verdicts with the same id are the same verdict.
NoConflictingVerdicts(results) ==
    \A i \in 1..Len(results), j \in 1..Len(results) :
        ("id" \in DOMAIN results[i] /\ "id" \in DOMAIN results[j]
            /\ results[i].id = results[j].id) => results[i] = results[j]

\* C4 as stated: merging with any permutation of the verdict list gives the same
\* findings as merging with the list itself.
C4_Original ==
    [][MergeResults =>
          \A p \in Permutations(1..Len(llm_results)) :
              merge_llm_results(findings, Permuted(llm_results, p)) = findings']_vars

\* C4 amended: when no two different verdicts of the list share an id, merging with
\* any permutation of the verdict list gives the same findings as merging with the
\* list itself (of different verdicts with one id, the last in the list wins).
C4_OrderIrrelevantWithoutConflictingIds ==
    [][(MergeResults /\ NoConflictingVerdicts(llm_results)) =>
          \A p \in Permutations(1..Len(llm_results)) :
              merge_llm_results(findings, Permuted(llm_results, p)) = findings']_vars

\* Merged: two verdicts with different ids, each attached to its finding.
C4_Witness ==
    /\ pc = "report"
    /\ Len(llm_results) = 2
    /\ NoConflictingVerdicts(llm_results)
    /\ "id" \in DOMAIN llm_results[1] /\ "id" \in DOMAIN llm_results[2]
    /\ llm_results[1].id # llm_results[2].id
    /\ \E i \in 1..Len(findings), j \in 1..Len(findings) :
          /\ LLMKeys \subseteq DOMAIN findings[i] /\ findings[i].id = llm_results[1].id
          /\ LLMKeys \subseteq DOMAIN findings[j] /\ findings[j].id = llm_results[2].id

\* ---- C5 ---------------------------------------------------------------

\* C5: merge_llm_results returns the same findings in the same order; a finding
\* without review id, or whose id no verdict carries, is unchanged in every field;
\* on a finding that matches only the four verdict fields are written.
C5_MergeWritesOnlyVerdictFields ==
    [][MergeResults =>
          /\ Len(findings') = Len(findings)
          /\ final_findings' = findings'
          /\ \A i \in 1..Len(findings) :
                LET f == findings[i]
                    g == findings'[i]
                IN /\ DOMAIN g \ LLMKeys = DOMAIN f \ LLMKeys
                   /\ \A key \in DOMAIN f \ LLMKeys : g[key] = f[key]
                   /\ ~HasVerdictFor(f) => g = f]_vars

\* Merged: one finding with a verdict, one with an id no verdict carries, one
\* without id.
C5_Witness ==
    /\ pc = "report"
    /\ Len(findings) = 3
    /\ \E i \in 1..3 : LLMKeys \subseteq DOMAIN findings[i]
    /\ \E i \in 1..3 : "id" \in DOMAIN findings[i] /\ LLMKeys \cap DOMAIN findings[i] = {}
    /\ \E i \in 1..3 : "id" \notin DOMAIN findings[i]

\* ---- C6 ---------------------------------------------------------------

\* The lines of the scanned text and, per line, what the rules are applied to.
ScannedLines == IF pc = "scanned_diff" THEN splitlines(diff_text) ELSE splitlines(message_text)

IsCandidateLine(line) == pc = "scanned_text" \/ is_added_line(strip(line))

CandidateContent(line) == IF pc = "scanned_text" THEN line ELSE Tail(strip(line))

MatchingRules(content) ==
    {r \in 1..Len(REGEX_PATTERNS) : regex_search(REGEX_PATTERNS[r], content)}

FindingsAtLine(k) == {i \in 1..Len(findings) : findings[i].line = k}

\* C6: in the diff scan and in the text scan a line produces at most one finding;
\* a scanned line that some rule matches produces a finding whose type is that of
\* the first matching rule in the order password, token, secret; a line that no
\* rule matches produces none.
C6_FirstMatchingRuleWins ==
    pc \in {"scanned_diff", "scanned_text"} =>
        \A k \in 1..Len(ScannedLines) :
            LET line == ScannedLines[k]
                matching == IF IsCandidateLine(line)
                            THEN MatchingRules(CandidateContent(line)) ELSE {}
            IN /\ Cardinality(FindingsAtLine(k)) <= 1
               /\ matching = {} => FindingsAtLine(k) = {}
               /\ matching # {} =>
                     \E i \in FindingsAtLine(k) :
                         findings[i].type = REGEX_PATTERNS[Minimum(matching)].finding_type

\* A diff whose added line the password rule and the token rule both match: one
\* finding, of type hardcoded_password.
C6_Witness ==
    /\ pc = "scanned_diff"
    /\ \E k \in 1..Len(ScannedLines) :
          /\ IsCandidateLine(ScannedLines[k])
          /\ {1, 2} \subseteq MatchingRules(CandidateContent(ScannedLines[k]))
          /\ \E i \in FindingsAtLine(k) : findings[i].type = "hardcoded_password"

\* ---- C7 ---------------------------------------------------------------

\* The lines before line k that start with "+++ ".
HeadersBefore(lines, k) == {j \in 1..(k - 1) : startswith(lines[j], "+++ ")}

HasPathToken(line) == Len(split(line)) >= 2

\* The second whitespace-delimited field of a header, without a leading b/; the
\* empty string when the header has no second field.
PathToken(line) ==
    LET parts == split(line)
    IN IF Len(parts) < 2 THEN ""
       ELSE IF startswith(parts[2], "b/") THEN SubSeq(parts[2], 3, Len(parts[2]))
       ELSE parts[2]

\* The finding sits on an added line: its line is a position of the diff text, the
\* line there, trimmed, starts with + and not with +++, and is the snippet's line.
OnAddedLine(lines, f) ==
    /\ f.line \in 1..Len(lines)
    /\ is_added_line(strip(lines[f.line]))
    /\ f.snippet = Tail(strip(lines[f.line]))

\* C7 as stated: a diff finding's file_path is the path token (b/ removed) of the
\* most recent preceding line starting with "+++ ", or "unknown" without one; its
\* line is the 1-based position of its added line; only added lines give findings.
C7_Original ==
    pc = "scanned_diff" =>
        \A i \in 1..Len(findings) :
            LET f == findings[i]
                lines == splitlines(diff_text)
                headers == HeadersBefore(lines, f.line)
            IN /\ OnAddedLine(lines, f)
               /\ f.file_path = IF headers = {} THEN "unknown"
                                ELSE PathToken(lines[Maximum(headers)])

\* C7 amended: a diff finding's file_path is the path token (b/ removed) of the most
\* recent preceding line that starts with "+++ " and has a second field, or "unknown"
\* when there is no such line or that path is empty; its line is the 1-based position
\* of its added line; only added lines give findings.
C7_FileOfLastHeaderWithPath ==
    pc = "scanned_diff" =>
        \A i \in 1..Len(findings) :
            LET f == findings[i]
                lines == splitlines(diff_text)
                headers == {j \in HeadersBefore(lines, f.line) : HasPathToken(lines[j])}
            IN /\ OnAddedLine(lines, f)
               /\ f.file_path = IF headers = {} THEN "unknown"
                                ELSE IF PathToken(lines[Maximum(headers)]) = "" THEN "unknown"
                                ELSE PathToken(lines[Maximum(headers)])

\* A finding on line 3 of a diff whose line 1 is the header of app.py and whose
\* line 2 is a "+++ " line without a path.
C7_Witness ==
    /\ pc = "scanned_diff"
    /\ Len(splitlines(diff_text)) = 3
    /\ splitlines(diff_text)[1] = "+++ b/app.py"
    /\ splitlines(diff_text)[2] = "+++ "
    /\ \E i \in 1..Len(findings) : findings[i].line = 3 /\ findings[i].file_path = "app.py"

\* ---- C8 ---------------------------------------------------------------

UnderDevNull(lines, f) ==
    /\ HeadersBefore(lines, f.line) # {}
    /\ lines[Maximum(HeadersBefore(lines, f.line))] = "+++ /dev/null"

\* C8 as stated: a finding whose most recent preceding header is "+++ /dev/null" has
\* file_path "unknown".
C8_Original ==
    pc = "scanned_diff" =>
        \A i \in 1..Len(findings) :
            UnderDevNull(splitlines(diff_text), findings[i]) => findings[i].file_path = "unknown"

\* C8 amended: a finding whose most recent preceding header is "+++ /dev/null" has
\* file_path "/dev/null".
C8_DevNullIsTheFilePath ==
    pc = "scanned_diff" =>
        \A i \in 1..Len(findings) :
            UnderDevNull(splitlines(diff_text), findings[i]) => findings[i].file_path = "/dev/null"

\* A finding whose most recent preceding header is "+++ /dev/null".
C8_Witness ==
    /\ pc = "scanned_diff"
    /\ \E i \in 1..Len(findings) : UnderDevNull(splitlines(diff_text), findings[i])

\* ---- C9 ---------------------------------------------------------------

\* The number of commits git log -n returns.
ScannedCount == IF args.n < Len(repo.commits) THEN args.n ELSE Len(repo.commits)

\* What the heuristic pass finds in one commit: its patch, then its message.
CommitScan(commit) ==
    scan_diff_for_passwords(commit.diff, commit.hash)
        \o scan_text_for_passwords(strip(commit.message), "COMMIT_MESSAGE", <<commit.hash>>)

\* The heuristic pass over every commit a history can hold, computed once.
CommitScans == [commit \in UNION {Range(h) : h \in Histories} |-> CommitScan(commit)]

\* C9: the classifier is called at most once, only when every commit has been
\* scanned, with one request that holds every selected candidate of every scanned
\* commit (a finished run that made no call had no selected candidate); a run
\* without findings never calls it and ends with an empty list.
C9_OneBatchedCallAfterScanning ==
    /\ Len(llm_requests) <= 1
    /\ llm_requests # <<>> =>
          /\ pc \in {"merge", "report", "done", "crashed"}
          /\ Len(hashes) = ScannedCount
          /\ ci = Len(hashes) + 1
          /\ findings # <<>>
    /\ pc = "merge" =>
          \A c \in 1..ScannedCount :
              \A f \in Range(CommitScans[repo.commits[c]]) :
                  order[f.confidence] <= order[args.min_confidence] => Covers(llm_requests[1], f)
    /\ (pc = "done" /\ llm_requests = <<>>) =>
          \A i \in 1..Len(findings) : order[findings[i].confidence] > order[args.min_confidence]
    /\ (pc = "done" /\ findings = <<>>) =>
          /\ final_findings = <<>>
          /\ report[1].findings = <<>>

\* A request that holds candidates of two commits, about to be merged.
C9_Witness ==
    /\ pc = "merge"
    /\ Len(hashes) = 2
    /\ Len(llm_requests) = 1
    /\ \E a \in 1..Len(llm_requests[1]), b \in 1..Len(llm_requests[1]) :
          llm_requests[1][a].commit_hash = "c1" /\ llm_requests[1][b].commit_hash = "c2"

\* ---- C10 --------------------------------------------------------------

\* C10: a run of main that ends without error has written the report
\* {repository, scanned_commits, findings} to the output path, findings being the
\* final list, whether that list is empty or not.
C10_ReportWritten ==
    pc = "done" =>
        out_file = <<[repository |-> args.repo, scanned_commits |-> args.n,
                      findings |-> final_findings]>>

============================================================================
